---- MODULE Spec2Model ----
(***************************************************************************)
(* A model of the Checklist block tool (src/src/index.js, the TypeScript   *)
(* class at lines 402-853 and its helpers at lines 302-401).               *)
(*                                                                         *)
(* The DOM subtree of one widget is the state: the wrapper holds a         *)
(* sequence of item nodes, each with a checked class, a checkbox control   *)
(* (with its no-hover class) and a text field whose child nodes are text   *)
(* nodes and <br> elements.  HTML strings are sequences of tokens.         *)
(***************************************************************************)
EXTENDS Integers, Sequences, FiniteSets, TLC

\* ---------------------------------------------------------------- bounds
\* Size of a document or of the live tree: items + tokens of text.
MaxSize == 3
\* Size of the documents the render and save checks start from.
MaxDocSize == 4
\* The host's current block index is drawn from 0..MaxBlockIndex.
MaxBlockIndex == 1
MaxToggleSize == 2
MaxConvSize == 3
MaxStrLen == 3
\* Size of the live tree (items + nodes' tokens, an empty text node counting
\* one): an Enter that would grow the tree beyond it is not taken.
MaxTree == 4

\* ---------------------------------------------------------------- HTML text
\* The tokens of an HTML string: characters, and the line-break tag.
Tokens == {"a", " ", "<br>"}
\* and with them the ampersand, bare or as the entity the serialiser writes
DocTokens == Tokens \cup {"&", "&amp;"}

\* the character an HTML token parses to, the token a character is written as
CharOf(token) == IF token = "&amp;" THEN "&" ELSE token
EscapeOf(char) == IF char = "&" THEN "&amp;" ELSE char

RECURSIVE SeqsUpTo(_, _)
SeqsUpTo(S, n) ==
  IF n = 0 THEN {<<>>}
  ELSE LET shorter == SeqsUpTo(S, n - 1)
       IN  shorter \cup {Append(s, x) : s \in {t \in shorter : Len(t) = n - 1}, x \in S}

TextNode(s) == [br |-> FALSE, s |-> s]
BrNode == [br |-> TRUE, s |-> <<>>]

\* el.innerHTML = html: maximal runs of characters become one text node each,
\* every <br> becomes an element; the empty string gives no child at all.
RECURSIVE ParseHTML(_)
ParseHTML(html) ==
  IF html = <<>> THEN <<>>
  ELSE LET rest == ParseHTML(Tail(html))
       IN  IF Head(html) = "<br>" THEN <<BrNode>> \o rest
           ELSE IF rest # <<>> /\ ~rest[1].br
                THEN <<TextNode(<<CharOf(Head(html))>> \o rest[1].s)>> \o Tail(rest)
                ELSE <<TextNode(<<CharOf(Head(html))>>)>> \o rest

\* el.innerHTML: the serialisation of the child nodes (an empty text node
\* contributes nothing, adjacent text nodes run together, an ampersand is
\* written as its entity).
RECURSIVE SerializeHTML(_)
SerializeHTML(nodes) ==
  IF nodes = <<>> THEN <<>>
  ELSE (IF Head(nodes).br THEN <<"<br>">>
        ELSE [i \in 1..Len(Head(nodes).s) |-> EscapeOf(Head(nodes).s[i])])
       \o SerializeHTML(Tail(nodes))

\* String.prototype.replace('<br>', ' '): only the FIRST occurrence.
RECURSIVE ReplaceFirstBr(_)
ReplaceFirstBr(h) ==
  IF h = <<>> THEN <<>>
  ELSE IF Head(h) = "<br>" THEN <<" ">> \o Tail(h)
       ELSE <<Head(h)>> \o ReplaceFirstBr(Tail(h))

RECURSIVE TrimStart(_)
TrimStart(h) == IF h # <<>> /\ Head(h) = " " THEN TrimStart(Tail(h)) ELSE h

RECURSIVE TrimEnd(_)
TrimEnd(h) ==
  IF h # <<>> /\ h[Len(h)] = " " THEN TrimEnd(SubSeq(h, 1, Len(h) - 1)) ELSE h

\* String.prototype.trim
Trim(h) == TrimEnd(TrimStart(h))

\* getHTML(el) of utils
getHTML(nodes) == Trim(ReplaceFirstBr(SerializeHTML(nodes)))

\* fragmentToHtml(fragment) of utils
fragmentToHtml(frag) == SerializeHTML(frag)

\* ---------------------------------------------------------------- documents
\* ChecklistItem: hasChecked = FALSE is an item without a checked field.
DocItem(text, checked, hasChecked) ==
  [text |-> text, checked |-> checked, hasChecked |-> hasChecked]

DocItemsOfSize(T, k) ==
  {DocItem(t, c[1], c[2]) :
     t \in {u \in SeqsUpTo(T, k - 1) : Len(u) = k - 1},
     c \in {<<TRUE, TRUE>>, <<FALSE, TRUE>>, <<FALSE, FALSE>>}}

\* every list of items with texts over T, of size (items + tokens) at most n
RECURSIVE DocLists(_, _)
DocLists(T, n) ==
  {<<>>} \cup UNION {{<<it>> \o rest : it \in DocItemsOfSize(T, k), rest \in DocLists(T, n - k)} :
                       k \in 1..n}

\* The value of a document's items field: a list, no field at all, a falsy
\* value that is no list (null, 0, ''), or a truthy one (a string, an object).
ListVal(l) == [kind |-> "list", list |-> l]
NonListVals == {[kind |-> k, list |-> <<>>] : k \in {"absent", "falsy", "truthy"}}

\* options.data as the host passes it: absent, or an object.
OptDataSet(T, n) ==
  {[present |-> FALSE, items |-> [kind |-> "absent", list |-> <<>>]]}
  \cup {[present |-> TRUE, items |-> v] : v \in NonListVals}
  \cup {[present |-> TRUE, items |-> ListVal(l)] : l \in DocLists(T, n)}

\* ---------------------------------------------------------------- state
VARIABLES
  optData,      \* the data option the constructor was given
  readOnly,     \* this.readOnly
  data,         \* this.data
  pc,           \* "constructed", "mounted" (render returned), "failed" (render threw)
  items,        \* the item nodes of this._elements.wrapper, top to bottom
  listeners,    \* the wrapper has its keydown and click listeners
  wrapper,      \* which element this._elements.wrapper is (0: null)
  other,        \* the item nodes of another checklist of the same page
  ev            \* the last operation or event, and what it was seen to do

vars == <<optData, readOnly, data, pc, items, listeners, wrapper, other, ev>>

\* No element of the widget has the focus.
NoSel == [item |-> 0, ak |-> 0, aoff |-> 0, fk |-> 0, foff |-> 0]

\* What is seen of an operation or event: its kind, the element it hit, the
\* selection it found (sel) and left (caret), whether it prevented the default
\* or threw, the host calls it made and the value it returned (ret: the items
\* of a document; valid: validate's boolean), a keydown's key code, and
\* the argument a conversion was given (arg).
Event(kind, el, s) ==
  [kind |-> kind, item |-> el.item, part |-> el.part, sel |-> s, caret |-> s,
   prevented |-> FALSE, threw |-> FALSE, calls |-> <<>>, ret |-> <<>>,
   valid |-> FALSE, keyCode |-> 0, arg |-> <<>>]

\* constructor: this.data = data || { items: [] }
Constructor(opt) ==
  IF opt.present THEN [items |-> opt.items] ELSE [items |-> ListVal(<<>>)]

\* the instance after construction, for the documents over T of size at most n
InstanceConstructed(T, n) ==
  /\ optData \in OptDataSet(T, n)
  /\ readOnly \in BOOLEAN
  /\ data = Constructor(optData)
  /\ pc = "constructed"
  /\ items = <<>>
  /\ listeners = FALSE
  /\ wrapper = 0
  /\ ev = Event("construct", [part |-> "none", item |-> 0], NoSel)

\* the state after construction on a page without another checklist
Constructed(T, n) ==
  /\ InstanceConstructed(T, n)
  /\ other = <<>>

\* The documents the edits are followed from give every item its checked
\* field: an item without one is rendered as one with checked: false is, so
\* its edits are the same (SpecDoc has the documents without the field).
Init ==
  /\ Constructed(Tokens, MaxSize)
  /\ \A i \in 1..Len(optData.items.list) : optData.items.list[i].hasChecked

\* ---------------------------------------------------------------- render
\* an item node that is checked unless the item says otherwise
createChecklistItem_CheckedByDefault(item) ==
  [checked |-> ~item.hasChecked \/ item.checked, noHover |-> FALSE, onLeave |-> FALSE,
   children |-> <<"checkboxContainer", "text">>,
   contentEditable |-> ~readOnly, nodes |-> ParseHTML(item.text),
   parent |-> 0]

\* an item node built without its checkbox container
createChecklistItem_NoCheckbox(item) ==
  [checked |-> item.hasChecked /\ item.checked, noHover |-> FALSE, onLeave |-> FALSE,
   children |-> <<"text">>, contentEditable |-> ~readOnly,
   nodes |-> ParseHTML(item.text), parent |-> 0]

\* createChecklistItem(item): innerHTML is item.text (or '' when falsy), the
\* checked class is added when item.checked is truthy.  The checkbox container
\* starts without the no-hover class (noHover) and without a mouseleave
\* listener (onLeave: it has at least one; each runs once, all at the same
\* mouseleave, so their number makes no difference).  The item node's children
\* are the checkbox container and the text field, appended in this order;
\* nodes are the child nodes of the text field, contentEditable its attribute
\* (!this.readOnly).
createChecklistItem(item) ==
  [checked |-> item.hasChecked /\ item.checked, noHover |-> FALSE, onLeave |-> FALSE,
   children |-> <<"checkboxContainer", "text">>,
   contentEditable |-> ~readOnly, nodes |-> ParseHTML(item.text),
   parent |-> 0]

\* if (!this.data.items): absent and falsy values are replaced by the default
RenderDefaults(v) ==
  IF v.kind \in {"absent", "falsy"}
  THEN ListVal(<<DocItem(<<>>, FALSE, TRUE)>>)
  ELSE v

\* a render that keeps the wrapper it has, once it has one
NewWrapper_Reused(w) == IF w = 0 THEN 1 ELSE w

\* make('div', ...): an element that did not exist before, so another one than
\* the wrapper the widget had until now.  Two names are enough to tell the new
\* one from the previous one.
NewWrapper(w) == IF w = 1 THEN 2 ELSE 1

\* wrapper.appendChild(newItem), wrapper.insertBefore(newItem, ...): the node
\* becomes a child of the wrapper w
Attach(item, w) == [item EXCEPT !.parent = w]

\* the forEach of render(): an item node is created for every item of the
\* list and appended to the wrapper w
RenderItems(list, w) ==
  [i \in 1..Len(list) |-> Attach(createChecklistItem(list[i]), w)]

\* a render that binds its listeners in read-only mode too
BindsListeners_Always(ro) == TRUE

\* if (this.readOnly) return this._elements.wrapper, before any listener is
\* added
BindsListeners(ro) == ~ro

\* render(): a truthy items value that is no list has no forEach, so the call
\* throws after the wrapper was replaced and before any listener is bound.
Render ==
  /\ pc \in {"constructed", "mounted"}
  /\ wrapper' = NewWrapper(wrapper)
  /\ LET v == RenderDefaults(data.items)
     IN  /\ data' = [items |-> v]
         /\ IF v.kind = "list"
            THEN /\ items' = RenderItems(v.list, wrapper')
                 /\ listeners' = BindsListeners(readOnly)
                 /\ pc' = "mounted"
                 /\ ev' = Event("render", [part |-> "none", item |-> 0], NoSel)
            ELSE /\ items' = <<>>
                 /\ listeners' = FALSE
                 /\ pc' = "failed"
                 /\ ev' = [Event("render", [part |-> "none", item |-> 0], NoSel)
                             EXCEPT !.threw = TRUE]
  /\ UNCHANGED <<optData, readOnly, other>>

\* the first render() of an instance
Mount ==
  /\ pc = "constructed"
  /\ Render

\* render() called again on an instance that was rendered before
Rerender ==
  /\ pc = "mounted"
  /\ Render

\* ---------------------------------------------------------------- save
\* a save that reports every item unchecked
SavedItem_Unchecked(it) == DocItem(getHTML(it.nodes), FALSE, TRUE)

SavedItem(it) == DocItem(getHTML(it.nodes), it.checked, TRUE)

\* a save that drops nothing
SkipEmpty_KeepsAll(l) == l

RECURSIVE SkipEmpty(_)
SkipEmpty(l) ==
  IF l = <<>> THEN <<>>
  ELSE IF Len(Trim(Head(l).text)) # 0 THEN <<Head(l)>> \o SkipEmpty(Tail(l))
       ELSE SkipEmpty(Tail(l))

\* save(): every item node has a text field, so the first filter keeps all.
SaveResult(its) == SkipEmpty([i \in 1..Len(its) |-> SavedItem(its[i])])

\* a save that writes the normalized texts back into the text fields
Save_WritesBack ==
  /\ ev' = [Event("save", [part |-> "none", item |-> 0], NoSel)
               EXCEPT !.ret = SaveResult(items)]
  /\ items' = [i \in 1..Len(items) |->
                 [items[i] EXCEPT !.nodes = ParseHTML(getHTML(items[i].nodes))]]
  /\ UNCHANGED <<optData, readOnly, data, pc, listeners, wrapper, other>>

\* save(): the items are read through the items getter, nothing is assigned
Save ==
  /\ ev' = [Event("save", [part |-> "none", item |-> 0], NoSel)
               EXCEPT !.ret = SaveResult(items)]
  /\ UNCHANGED <<optData, readOnly, data, pc, items, listeners, wrapper, other>>

\* ---------------------------------------------------------------- validate
\* a validation that accepts every document
validate_Always(savedData) == TRUE

\* validate(savedData): !!savedData.items.length
validate(savedData) == Len(savedData.items) # 0

\* The host validates the document save() has just returned.
Validate ==
  /\ ev.kind = "save"
  /\ ev' = [Event("validate", [part |-> "none", item |-> 0], NoSel)
               EXCEPT !.ret = ev.ret, !.valid = validate([items |-> ev.ret])]
  /\ UNCHANGED <<optData, readOnly, data, pc, items, listeners, wrapper, other>>

\* ---------------------------------------------------------------- elements
\* The elements of the tree: the wrapper, and per item the item node, its
\* checkbox container, the checkbox inside it and the text field.  "host" is
\* whatever lies outside (document.body, the host's own nodes).
El(part, i) == [part |-> part, item |-> i]
WrapperEl == El("wrapper", 0)
HostEl == El("host", 0)

\* parentNode, as createChecklistItem and render build the tree
ParentEl(el) ==
  CASE el.part = "checkbox" -> El("checkboxContainer", el.item)
    [] el.part = "checkboxContainer" -> El("item", el.item)
    [] el.part = "text" -> El("item", el.item)
    [] el.part = "item" -> WrapperEl
    [] OTHER -> HostEl

\* el.closest('.cdx-checklist__item'): the element itself or its nearest
\* ancestor carrying the item class; 0 stands for null.
RECURSIVE ClosestItem(_)
ClosestItem(el) ==
  IF el.part = "item" THEN el.item
  ELSE IF el.part = "host" THEN 0
  ELSE ClosestItem(ParentEl(el))

\* checkbox.contains(node), checkbox being the checkbox container of item i
CheckboxContains(i, el) ==
  el.item = i /\ el.part \in {"checkboxContainer", "checkbox"}

\* document.activeElement under the selection s: the text field holding it,
\* else the body
ActiveElement(s) == IF s.item = 0 THEN HostEl ELSE El("text", s.item)

\* ---------------------------------------------------------------- selection
\* A boundary point of a text field: k = 0 is the field itself with off a
\* child index; k > 0 is its k-th child, a text node, with off a character
\* offset.
Pos(k, off) == [k |-> k, off |-> off]

Positions(nodes) ==
  {Pos(0, c) : c \in 0..Len(nodes)}
  \cup UNION {{Pos(k, o) : o \in 0..Len(nodes[k].s)} :
                k \in {j \in 1..Len(nodes) : ~nodes[j].br}}

\* document order of two boundary points of the same text field
Before(p, q) ==
  LET rp == IF p.k = 0 THEN 2 * p.off ELSE 2 * p.k - 1
      rq == IF q.k = 0 THEN 2 * q.off ELSE 2 * q.k - 1
  IN  rp < rq \/ (rp = rq /\ p.off <= q.off)

Anchor(s) == Pos(s.ak, s.aoff)
Focus(s) == Pos(s.fk, s.foff)

\* the end boundary of getRangeAt(0): the later of anchor and focus
RangeEnd(s) == IF Before(Anchor(s), Focus(s)) THEN Focus(s) ELSE Anchor(s)

Caret(i, p) == [item |-> i, ak |-> p.k, aoff |-> p.off, fk |-> p.k, foff |-> p.off]

\* moveCaret(element, toStart, offset): with an offset the range is collapsed
\* at that child index; without one it spans the contents and collapses to
\* the start or the end.
moveCaret(i, nodes, toStart, offset) ==
  IF offset >= 0 THEN Caret(i, Pos(0, offset))
  ELSE IF toStart THEN Caret(i, Pos(0, 0))
  ELSE Caret(i, Pos(0, Len(nodes)))

\* extractContentAfterCaret(): the range from the selection's end to the end
\* of the active text field is extracted.  A text node holding the start is
\* split: the part before stays (an empty text node when the offset is 0) and
\* the part after goes to the fragment; the children after it are moved.
extractContentAfterCaret(nodes, p) ==
  IF p.k = 0
  THEN [kept |-> SubSeq(nodes, 1, p.off),
        frag |-> SubSeq(nodes, p.off + 1, Len(nodes))]
  ELSE [kept |-> SubSeq(nodes, 1, p.k - 1)
                   \o <<TextNode(SubSeq(nodes[p.k].s, 1, p.off))>>,
        frag |-> <<TextNode(SubSeq(nodes[p.k].s, p.off + 1, Len(nodes[p.k].s)))>>
                   \o SubSeq(nodes, p.k + 1, Len(nodes))]

\* The selections the user can have made when a key goes down: none in this
\* widget, or inside one editable text field (then the active element) a
\* caret, or a range drawn backwards from the field's end to any point.
RangesTo(i, nodes, f) ==
  {[item |-> i, ak |-> a.k, aoff |-> a.off, fk |-> f.k, foff |-> f.off] :
     a \in {f, Pos(0, Len(nodes))}}

Selections(its) ==
  {NoSel} \cup
  UNION {UNION {RangesTo(i, its[i].nodes, f) : f \in Positions(its[i].nodes)} :
           i \in 1..Len(its)}

\* The selections that tell the keydowns of a key without handler apart: what
\* matters of them is the element they go to, so none in this widget, or a
\* caret at the start of a text field.
FocusSelections(its) ==
  {NoSel} \cup {Caret(i, Pos(0, 0)) : i \in 1..Len(its)}

\* ---------------------------------------------------------------- tree
RECURSIVE NodesSize(_)
NodesSize(nodes) ==
  IF nodes = <<>> THEN 0
  ELSE (IF Head(nodes).br \/ Head(nodes).s = <<>> THEN 1 ELSE Len(Head(nodes).s))
       + NodesSize(Tail(nodes))

RECURSIVE TreeSize(_)
TreeSize(its) ==
  IF its = <<>> THEN 0 ELSE 1 + NodesSize(Head(its).nodes) + TreeSize(Tail(its))

\* a removal that takes the items before the i-th with it
RemoveItem_DropsBefore(its, i) == SubSeq(its, i + 1, Len(its))

\* node.remove() of the i-th item
RemoveItem(its, i) == SubSeq(its, 1, i - 1) \o SubSeq(its, i + 1, Len(its))

\* an insertion that puts the new item in twice
InsertAfter_Twice(its, i, newItem) ==
  SubSeq(its, 1, i) \o <<Attach(newItem, wrapper), Attach(newItem, wrapper)>>
    \o SubSeq(its, i + 1, Len(its))

\* an insertion before the current item instead of after it
InsertAfter_Before(its, i, newItem) ==
  SubSeq(its, 1, i - 1) \o <<Attach(newItem, wrapper)>> \o SubSeq(its, i, Len(its))

\* wrapper.insertBefore(newItem, currentItem.nextSibling)
InsertAfter(its, i, newItem) ==
  SubSeq(its, 1, i) \o <<Attach(newItem, wrapper)>> \o SubSeq(its, i + 1, Len(its))

HostCall(op, arg) == [op |-> op, arg |-> arg]

\* ---------------------------------------------------------------- key codes
\* const [ENTER, BACKSPACE] = [13, 8]
ENTER == 13
BACKSPACE == 8

\* key codes the switch has no case for: Tab and Delete
OtherKeyCodes == {9, 46}

\* a switch that takes every key but Backspace for Enter
KeyHandler_AnyKeyEnters(keyCode) ==
  IF keyCode = BACKSPACE THEN "backspace" ELSE "enterPressed"

\* switch (event.keyCode): the handler called, "none" without a matching case
KeyHandler(keyCode) ==
  CASE keyCode = ENTER -> "enterPressed"
    [] keyCode = BACKSPACE -> "backspace"
    [] OTHER -> "none"

\* the event kind seen for a key code
KeyKind(keyCode) ==
  CASE keyCode = ENTER -> "enter"
    [] keyCode = BACKSPACE -> "backspace"
    [] OTHER -> "key"

\* the keydown event as dispatched: its key code, its target (the active
\* element) and the selection it finds
KeyEvent(keyCode, s) ==
  [Event(KeyKind(keyCode), ActiveElement(s), s) EXCEPT !.keyCode = keyCode]

\* ---------------------------------------------------------------- Enter
\* const isLastItem = currentItemIndex === items.length - 1, where indexOf
\* gives -1 when no item holds the active element (cur = 0)
isLastItem(its, cur) == cur - 1 = Len(its) - 1

\* the exit test on the raw innerHTML instead of getHTML's normalized text
EnterBranch_RawEmpty(its, cur) ==
  IF isLastItem(its, cur) /\ cur # 0
  THEN IF Len(SerializeHTML(its[cur].nodes)) = 0 THEN "exit" ELSE "split"
  ELSE "none"

\* The branch enterPressed takes for the current item cur (0: none).
EnterBranch(its, cur) ==
  IF isLastItem(its, cur) /\ cur # 0
  THEN IF Len(getHTML(its[cur].nodes)) = 0 THEN "exit" ELSE "split"
  ELSE "none"

\* an exit that asks the host for the new block before it removes the item
ExitCalls_InsertFirst(b) ==
  <<HostCall("getCurrentBlockIndex", b), HostCall("insert", 0),
    HostCall("item.remove", 0), HostCall("setToBlock", b + 1)>>

\* The exit branch: the block index is read, the item removed, the host asked
\* to insert a block and to put the caret into block index + 1.
ExitCalls(b) ==
  <<HostCall("getCurrentBlockIndex", b), HostCall("item.remove", 0),
    HostCall("insert", 0), HostCall("setToBlock", b + 1)>>

\* a split whose new item takes the flag of the item it was cut from
SplitItems_CopiesFlag(its, cur, p) ==
  LET cut == extractContentAfterCaret(its[cur].nodes, p)
      newItem == createChecklistItem(DocItem(fragmentToHtml(cut.frag), its[cur].checked, TRUE))
  IN  InsertAfter([its EXCEPT ![cur].nodes = cut.kept], cur, newItem)

\* The split branch: the content after the caret is cut, turned into HTML and
\* given to a new unchecked item inserted after the current one.
SplitItems(its, cur, p) ==
  LET cut == extractContentAfterCaret(its[cur].nodes, p)
      newItem == createChecklistItem(DocItem(fragmentToHtml(cut.frag), FALSE, TRUE))
  IN  InsertAfter([its EXCEPT ![cur].nodes = cut.kept], cur, newItem)

\* moveCaret(newItemInput, true)
SplitCaret(its, cur) == moveCaret(cur + 1, its[cur + 1].nodes, TRUE, -1)

\* an Enter that prevents the default only where it edits the checklist
enterPressed_PreventsOnEdit(keyCode, s) ==
  LET cur == ClosestItem(ActiveElement(s))
      branch == EnterBranch(items, cur)
      e == [KeyEvent(keyCode, s) EXCEPT !.prevented = TRUE]
  IN  CASE branch = "exit" ->
             /\ \E b \in 0..MaxBlockIndex :
                  ev' = [e EXCEPT !.calls = ExitCalls(b), !.caret = NoSel]
             /\ items' = RemoveItem(items, cur)
        [] branch = "split" ->
             /\ TreeSize(SplitItems(items, cur, RangeEnd(s))) <= MaxTree
             /\ items' = SplitItems(items, cur, RangeEnd(s))
             /\ ev' = [e EXCEPT !.caret = SplitCaret(items', cur)]
        [] OTHER ->
             /\ ev' = KeyEvent(keyCode, s)
             /\ UNCHANGED items

\* enterPressed(event): preventDefault comes first, then the branches
enterPressed(keyCode, s) ==
  LET cur == ClosestItem(ActiveElement(s))
      branch == EnterBranch(items, cur)
      e == [KeyEvent(keyCode, s) EXCEPT !.prevented = TRUE]
  IN  CASE branch = "exit" ->
             /\ \E b \in 0..MaxBlockIndex :
                  ev' = [e EXCEPT !.calls = ExitCalls(b), !.caret = NoSel]
             /\ items' = RemoveItem(items, cur)
        [] branch = "split" ->
             /\ TreeSize(SplitItems(items, cur, RangeEnd(s))) <= MaxTree
             /\ items' = SplitItems(items, cur, RangeEnd(s))
             /\ ev' = [e EXCEPT !.caret = SplitCaret(items', cur)]
        [] OTHER ->
             /\ ev' = e
             /\ UNCHANGED items

\* ---------------------------------------------------------------- Backspace
\* backspace returns early without a previous item (this.items[currentIndex - 1]
\* is undefined) or when selection.focusOffset is not 0.
\* a merge decided without looking at the caret's offset
BackspaceMerges_AnyOffset(its, cur, s) == cur - 1 >= 1

BackspaceMerges(its, cur, s) == cur - 1 >= 1 /\ s.foff = 0

\* prevItemInput.appendChild(fragmentAfterCaret): the content cut after the
\* caret goes to the end of the previous item's text field.
AppendToPrev(its, cur, p) ==
  LET cut == extractContentAfterCaret(its[cur].nodes, p)
  IN  [its EXCEPT ![cur - 1].nodes = @ \o cut.frag, ![cur].nodes = cut.kept]

\* a caret put at the end of the merged text
MergeCaret_AtEnd(its, cur, prevItemChildNodesLength) ==
  moveCaret(cur - 1, its[cur - 1].nodes, FALSE, Len(its[cur - 1].nodes))

\* moveCaret(prevItemInput, undefined, prevItemChildNodesLength), called after
\* the append with the child count read before it
MergeCaret(its, cur, prevItemChildNodesLength) ==
  moveCaret(cur - 1, its[cur - 1].nodes, FALSE, prevItemChildNodesLength)

backspace(keyCode, s) ==
  LET cur == ClosestItem(ActiveElement(s))
      e == KeyEvent(keyCode, s)
  IN  IF BackspaceMerges(items, cur, s)
      THEN LET appended == AppendToPrev(items, cur, RangeEnd(s))
           IN  /\ items' = RemoveItem(appended, cur)
               /\ ev' = [e EXCEPT !.prevented = TRUE,
                                  !.caret = MergeCaret(appended, cur, Len(items[cur - 1].nodes))]
      ELSE /\ ev' = e
           /\ UNCHANGED items

\* ---------------------------------------------------------------- keydown
\* The keydown listener of render(): the switch on event.keyCode.  The event
\* goes to the active element; without the listener (read-only, where no text
\* field is editable) it does nothing.
\* A keydown with the given key code and selection: the switch calls the
\* handler of the key, if it has one.
Keydown(keyCode, s) ==
  /\ pc = "mounted"
  /\ CASE listeners /\ KeyHandler(keyCode) = "enterPressed" -> enterPressed(keyCode, s)
       [] listeners /\ KeyHandler(keyCode) = "backspace" -> backspace(keyCode, s)
       [] OTHER -> /\ ev' = KeyEvent(keyCode, s)
                   /\ UNCHANGED items
  /\ UNCHANGED <<optData, readOnly, data, pc, listeners, wrapper, other>>

KeydownEnter ==
  \E s \in (IF readOnly THEN {NoSel} ELSE Selections(items)) : Keydown(ENTER, s)

KeydownBackspace ==
  \E s \in (IF readOnly THEN {NoSel} ELSE Selections(items)) : Keydown(BACKSPACE, s)

KeydownOther ==
  \E keyCode \in OtherKeyCodes :
    \E s \in (IF readOnly THEN {NoSel}
              ELSE IF KeyHandler(keyCode) = "none" THEN FocusSelections(items)
              ELSE Selections(items)) : Keydown(keyCode, s)

\* ---------------------------------------------------------------- click
\* The elements a click can hit
ClickTargets ==
  {WrapperEl} \cup {El(part, i) : part \in {"item", "checkboxContainer", "checkbox", "text"},
                                  i \in 1..Len(items)}

\* The click listener of render() calls toggleCheckbox(this._elements.wrapper, event):
\* the element the item is looked up from.
ClickLookupStart(eventTarget) == WrapperEl

\* a toggle of whatever item the click hit, checkbox or not
toggleCheckbox_AnyTarget(its, target, eventTarget) ==
  LET i == ClosestItem(eventTarget)
  IN  IF i # 0
      THEN [its EXCEPT ![i].checked = ~@, ![i].noHover = TRUE, ![i].onLeave = TRUE]
      ELSE its

\* a toggle that flips every item
toggleCheckbox_All(its, target, eventTarget) ==
  LET i == ClosestItem(target)
  IN  IF i # 0 /\ CheckboxContains(i, eventTarget)
      THEN [j \in 1..Len(its) |->
              [its[j] EXCEPT !.checked = ~@, !.noHover = TRUE, !.onLeave = TRUE]]
      ELSE its

\* toggleCheckbox(target, event): the item is looked up from target, and its
\* checked class is toggled when its checkbox contains the event's target
toggleCheckbox(its, target, eventTarget) ==
  LET i == ClosestItem(target)
  IN  IF i # 0 /\ CheckboxContains(i, eventTarget)
      THEN [its EXCEPT ![i].checked = ~@, ![i].noHover = TRUE, ![i].onLeave = TRUE]
      ELSE its

Click ==
  /\ pc = "mounted"
  /\ \E el \in ClickTargets :
       /\ ev' = Event("click", el, NoSel)
       /\ items' = IF listeners
                   THEN toggleCheckbox(items, ClickLookupStart(el), el)
                   ELSE items
  /\ UNCHANGED <<optData, readOnly, data, pc, listeners, wrapper, other>>

\* ---------------------------------------------------------------- mouseleave
\* a removal that leaves the class
removeSpecialHoverBehavior_Keeps(item) == item

\* removeSpecialHoverBehavior(el): el.classList.remove(noHover)
removeSpecialHoverBehavior(item) == [item EXCEPT !.noHover = FALSE]

\* The mouse leaves the checkbox container of an item: the listeners toggles
\* have added with { once: true } run and are gone.
MouseLeave ==
  /\ pc = "mounted"
  /\ \E i \in 1..Len(items) :
       /\ ev' = Event("mouseleave", El("checkboxContainer", i), NoSel)
       /\ items' = IF items[i].onLeave
                   THEN [items EXCEPT ![i] = [removeSpecialHoverBehavior(@)
                                                EXCEPT !.onLeave = FALSE]]
                   ELSE items
  /\ UNCHANGED <<optData, readOnly, data, pc, listeners, wrapper, other>>

Next ==
  \/ Mount
  \/ Save
  \/ Validate
  \/ KeydownEnter
  \/ KeydownBackspace
  \/ KeydownOther
  \/ Click
  \/ MouseLeave

Spec == Init /\ [][Next]_vars

\* The host's lifecycle calls alone (construct, render, save), from larger
\* documents.
InitDoc == Constructed(DocTokens, MaxDocSize)

NextDoc ==
  \/ Render
  \/ Save

SpecDoc == InitDoc /\ [][NextDoc]_vars

\* toggleCheckbox(target, event) called as the method it is, with the element
\* to look the item up from and the event's target
ToggleCheckbox ==
  /\ pc = "mounted"
  /\ \E target \in ClickTargets, eventTarget \in ClickTargets :
       /\ ev' = Event("toggleCheckbox", eventTarget, NoSel)
       /\ items' = toggleCheckbox(items, target, eventTarget)
  /\ UNCHANGED <<optData, readOnly, data, pc, listeners, wrapper, other>>

NextToggle ==
  \/ Render
  \/ ToggleCheckbox
  \/ Click
  \/ MouseLeave

InitToggle ==
  /\ Constructed(Tokens, MaxToggleSize)
  /\ \A i \in 1..Len(optData.items.list) : optData.items.list[i].hasChecked

SpecToggle == InitToggle /\ [][NextToggle]_vars

\* Renders repeated on an instance the user edits in between.
NextRerender ==
  \/ Mount
  \/ Rerender
  \/ KeydownEnter
  \/ KeydownBackspace
  \/ Click

SpecRerender == InitToggle /\ [][NextRerender]_vars

\* ---------------------------------------------------------------- two checklists
\* The wrapper of the other checklist of the page: an element that is never
\* this instance's wrapper.
OtherWrapper == 3

\* The trees another instance, not read-only, has rendered from the lists over
\* T of size at most n with at least one item.
OtherTrees(T, n) ==
  {[i \in 1..Len(l) |->
      [Attach(createChecklistItem(l[i]), OtherWrapper) EXCEPT !.contentEditable = TRUE]] :
     l \in {m \in DocLists(T, n) :
              Len(m) >= 1 /\ \A i \in 1..Len(m) : m[i].hasChecked}}

\* enterPressed(event) run by this instance while document.activeElement is
\* the text field of the other checklist's item j: closest() finds that item,
\* this.items.indexOf gives -1 for it, and -1 === items.length - 1 when this
\* instance has no item.  Then the exit branch removes the other's item when
\* its text is empty; else the content after the caret is cut from the other's
\* text field and insertBefore(newItem, currentItem.nextSibling) throws when
\* the next sibling is an item of the other wrapper, and appends the new item
\* to this wrapper when it is null.
enterPressedElsewhere(keyCode, j, s) ==
  LET e == [Event(KeyKind(keyCode), El("otherText", j), [s EXCEPT !.item = 0])
              EXCEPT !.keyCode = keyCode, !.prevented = TRUE]
      cut == extractContentAfterCaret(other[j].nodes, RangeEnd(s))
      newItem == createChecklistItem(DocItem(fragmentToHtml(cut.frag), FALSE, TRUE))
  IN  CASE ~isLastItem(items, 0) ->
             /\ ev' = e
             /\ UNCHANGED <<items, other>>
        [] isLastItem(items, 0) /\ Len(getHTML(other[j].nodes)) = 0 ->
             /\ \E b \in 0..MaxBlockIndex :
                  ev' = [e EXCEPT !.calls = ExitCalls(b), !.caret = NoSel]
             /\ other' = RemoveItem(other, j)
             /\ UNCHANGED items
        [] OTHER ->
             /\ other' = [other EXCEPT ![j].nodes = cut.kept]
             /\ IF j < Len(other)
                THEN /\ ev' = [e EXCEPT !.threw = TRUE]
                     /\ UNCHANGED items
                ELSE /\ items' = <<Attach(newItem, wrapper)>>
                     /\ ev' = [e EXCEPT !.caret = moveCaret(1, newItem.nodes, TRUE, -1)]

\* An Enter keydown that reaches this instance's listener (dispatched on its
\* wrapper) while the focus is in a text field of the other checklist.
KeydownEnterElsewhere ==
  /\ pc = "mounted"
  /\ listeners
  /\ \E j \in 1..Len(other) :
       \E s \in UNION {RangesTo(j, other[j].nodes, f) : f \in Positions(other[j].nodes)} :
         enterPressedElsewhere(ENTER, j, s)
  /\ UNCHANGED <<optData, readOnly, data, pc, listeners, wrapper>>

InitTwo ==
  /\ InstanceConstructed(Tokens, MaxToggleSize)
  /\ \A i \in 1..Len(optData.items.list) : optData.items.list[i].hasChecked
  /\ other \in OtherTrees(Tokens, MaxToggleSize)

NextTwo ==
  \/ Mount
  \/ KeydownEnter
  \/ KeydownBackspace
  \/ Click
  \/ KeydownEnterElsewhere

SpecTwo == InitTwo /\ [][NextTwo]_vars

\* ---------------------------------------------------------------- conversion
\* the characters of the strings converted: those of the texts, and the dot
ConvTokens == Tokens \cup {"."}

\* Array.prototype.join(sep)
RECURSIVE Join(_, _)
Join(strs, sep) ==
  IF strs = <<>> THEN <<>>
  ELSE IF Len(strs) = 1 THEN strs[1]
  ELSE strs[1] \o sep \o Join(Tail(strs), sep)

\* an export of the checked items only
export_CheckedOnly(checklistData) ==
  Join(SelectSeq([i \in 1..Len(checklistData.items) |->
                    IF checklistData.items[i].checked THEN checklistData.items[i].text ELSE <<"-">>],
                 LAMBDA t : t # <<"-">>), <<".", " ">>)

\* conversionConfig.export(data): checklistData.items.map(({ text }) => text).join('. ')
export(checklistData) ==
  Join([i \in 1..Len(checklistData.items) |-> checklistData.items[i].text], <<".", " ">>)

\* an import that trims the string
import_Trimmed(str) == [items |-> <<DocItem(Trim(str), FALSE, TRUE)>>]

\* conversionConfig.import(str): { items: [{ text: str, checked: false }] }
import(str) == [items |-> <<DocItem(str, FALSE, TRUE)>>]

\* The host converts a checklist block to a string: export is given the
\* block's data; items.map throws when items is no list.
Export ==
  /\ \E v \in NonListVals \cup {ListVal(l) : l \in DocLists(ConvTokens, MaxConvSize)} :
       ev' = [Event("export", [part |-> "none", item |-> 0], NoSel)
                EXCEPT !.arg = v,
                       !.threw = (v.kind # "list"),
                       !.ret = IF v.kind = "list" THEN export([items |-> v.list]) ELSE <<>>]
  /\ UNCHANGED <<optData, readOnly, data, pc, items, listeners, wrapper, other>>

\* The host converts a string of another block to a checklist.
Import ==
  /\ \E str \in SeqsUpTo(ConvTokens, MaxStrLen) :
       ev' = [Event("import", [part |-> "none", item |-> 0], NoSel)
                EXCEPT !.arg = str, !.ret = import(str).items]
  /\ UNCHANGED <<optData, readOnly, data, pc, items, listeners, wrapper, other>>

\* A string converted to a checklist and back.
ImportExport ==
  /\ \E str \in SeqsUpTo(ConvTokens, MaxStrLen) :
       ev' = [Event("importExport", [part |-> "none", item |-> 0], NoSel)
                EXCEPT !.arg = str, !.ret = export(import(str))]
  /\ UNCHANGED <<optData, readOnly, data, pc, items, listeners, wrapper, other>>

\* The conversions are static: no widget is needed, one built without data
\* is there.
InitConv ==
  /\ Constructed(Tokens, 0)
  /\ ~optData.present
  /\ ~readOnly

NextConv ==
  \/ Export
  \/ Import
  \/ ImportExport

SpecConv == InitConv /\ [][NextConv]_vars

\* ================================================================ properties
\* The HTML of a text field, and the part of it before a boundary point.
FieldHTML(nodes) == SerializeHTML(nodes)

TokensBefore(nodes, p) ==
  IF p.k = 0
  THEN Len(SerializeHTML(SubSeq(nodes, 1, p.off)))
  ELSE Len(SerializeHTML(SubSeq(nodes, 1, p.k - 1))) + p.off

\* the HTML of a text field after a boundary point
HTMLAfter(nodes, p) ==
  SubSeq(FieldHTML(nodes), TokensBefore(nodes, p) + 1, Len(FieldHTML(nodes)))

HTMLBefore(nodes, p) == SubSeq(FieldHTML(nodes), 1, TokensBefore(nodes, p))

\* The text save() is to report for a text field: the first <br> of its HTML
\* made a space, then leading and trailing spaces dropped.
NormalizedText(nodes) ==
  LET h == FieldHTML(nodes)
      brs == {i \in 1..Len(h) : h[i] = "<br>"}
      first == IF brs = {} THEN 0 ELSE CHOOSE i \in brs : \A j \in brs : i <= j
      r == [i \in 1..Len(h) |-> IF i = first THEN " " ELSE h[i]]
      inked == {i \in 1..Len(r) : r[i] # " "}
      lo == IF inked = {} THEN 1 ELSE CHOOSE i \in inked : \A j \in inked : i <= j
      hi == IF inked = {} THEN 0 ELSE CHOOSE i \in inked : \A j \in inked : i >= j
  IN  SubSeq(r, lo, hi)

\* Enter pressed with the focus in the last item, whose normalized text is empty
IsExitGesture(its, s) ==
  /\ s.item # 0
  /\ s.item = Len(its)
  /\ NormalizedText(its[s.item].nodes) = <<>>

\* the items other than those at the given positions before and after a step
\* are the same, in the same order
SameItemsExcept(before, after, i, grow) ==
  /\ Len(after) = Len(before) + grow
  /\ \A j \in 1..Len(before) :
       /\ j < i => after[j] = before[j]
       /\ j > i => after[j + grow] = before[j]

\* C1: in an editable rendered widget, a click inside the checkbox control of
\* item i flips the checked state of item i (so two clicks restore it).
C1_ClickTogglesCheckbox ==
  [][(/\ ev'.kind = "click"
      /\ listeners
      /\ ev'.part \in {"checkbox", "checkboxContainer"})
     => items'[ev'.item].checked = ~items[ev'.item].checked]_vars

\* C2: Enter in a focused item, in every case other than "last item with empty
\* normalized text" (so also in a non-last item), cuts the content after the
\* caret from the item, inserts a new unchecked item holding exactly that
\* content as the next sibling and puts the caret at the start of the new item.
C2_EnterSplits ==
  [][(/\ ev'.kind = "enter"
      /\ listeners
      /\ ev'.sel.item # 0
      /\ ~IsExitGesture(items, ev'.sel))
     => LET cur == ev'.sel.item
            p == RangeEnd(ev'.sel)
        IN  /\ SameItemsExcept(items, items', cur, 1)
            /\ items'[cur].checked = items[cur].checked
            /\ FieldHTML(items'[cur].nodes) = HTMLBefore(items[cur].nodes, p)
            /\ FieldHTML(items'[cur + 1].nodes) = HTMLAfter(items[cur].nodes, p)
            /\ ~items'[cur + 1].checked
            /\ ev'.caret = Caret(cur + 1, Pos(0, 0))]_vars

\* The part of C2 about the last item (the case the code does split).
C2_EnterSplitsLastItem ==
  [][(/\ ev'.kind = "enter"
      /\ listeners
      /\ ev'.sel.item # 0
      /\ ev'.sel.item = Len(items)
      /\ ~IsExitGesture(items, ev'.sel))
     => LET cur == ev'.sel.item
            p == RangeEnd(ev'.sel)
        IN  /\ SameItemsExcept(items, items', cur, 1)
            /\ items'[cur].checked = items[cur].checked
            /\ FieldHTML(items'[cur].nodes) = HTMLBefore(items[cur].nodes, p)
            /\ FieldHTML(items'[cur + 1].nodes) = HTMLAfter(items[cur].nodes, p)
            /\ ~items'[cur + 1].checked
            /\ ev'.caret = Caret(cur + 1, Pos(0, 0))]_vars

CallsOf(calls, ops) == {i \in 1..Len(calls) : calls[i].op \in ops}

\* C3: Enter in the focused last item with empty normalized text removes that
\* item and calls the host's block insertion exactly once; no other operation
\* or event makes a host insertion or host caret call.
C3_ExitInsertsOnce ==
  [][IF ev'.kind = "enter" /\ listeners /\ IsExitGesture(items, ev'.sel)
     THEN /\ items' = SubSeq(items, 1, Len(items) - 1)
          /\ Cardinality(CallsOf(ev'.calls, {"insert"})) = 1
     ELSE CallsOf(ev'.calls, {"insert", "setToBlock"}) = {}]_vars

\* an Enter-exit has happened in a checklist of several items
C3_Witness ==
  /\ ev.kind = "enter"
  /\ Cardinality(CallsOf(ev.calls, {"insert"})) = 1
  /\ Len(items) >= 1

\* C4 as stated: after any Enter, Backspace or click on a mounted checklist
\* that has an item, the checklist still has at least one item.
C4_NeverZeroItems ==
  [][(/\ pc = "mounted"
      /\ Len(items) >= 1
      /\ ev'.kind \in {"enter", "backspace", "click"})
     => Len(items') >= 1]_vars

\* C4 amended: no Backspace or click takes the checklist from at least one
\* item to none; an Enter does so only as the Enter-exit gesture on the only
\* remaining item.
C4_OnlyExitEmpties ==
  [][(/\ pc = "mounted"
      /\ Len(items) >= 1
      /\ ev'.kind \in {"enter", "backspace", "click"}
      /\ Len(items') = 0)
     => /\ ev'.kind = "enter"
        /\ Len(items) = 1
        /\ IsExitGesture(items, ev'.sel)]_vars

\* the Enter-exit gesture has emptied the checklist
C4_Witness ==
  /\ pc = "mounted"
  /\ ev.kind = "enter"
  /\ ev.calls # <<>>
  /\ Len(items) = 0

\* the item nodes render() is to build for a list of document items: one per
\* item, in order, with the item's text and checked flag
RenderedAs(its, list) ==
  /\ Len(its) = Len(list)
  /\ \A i \in 1..Len(list) :
       /\ FieldHTML(its[i].nodes) = FieldHTML(ParseHTML(list[i].text))
       /\ its[i].checked = list[i].checked

\* a single blank unchecked item
OneBlankItem(its) ==
  /\ Len(its) = 1
  /\ FieldHTML(its[1].nodes) = <<>>
  /\ ~its[1].checked

\* the document the widget was constructed with has no items
NoItemsGiven(opt) ==
  \/ ~opt.present
  \/ opt.items.kind = "absent"
  \/ opt.items.kind = "list" /\ opt.items.list = <<>>

\* C5: render() returns a container with exactly one item node per item of the
\* document, in document order, and with exactly one empty unchecked item when
\* the document has no items (also for the { items: [] } the constructor
\* substitutes when no data is supplied).
C5_RenderOnePerItem ==
  (ev.kind = "render" /\ (~optData.present \/ optData.items.kind \in {"absent", "list"}))
  => /\ ~ev.threw
     /\ IF NoItemsGiven(optData)
        THEN OneBlankItem(items)
        ELSE RenderedAs(items, optData.items.list)

\* the initial document is absent or malformed: no data, no items field, or an
\* items field that is no list
Malformed(opt) == ~opt.present \/ opt.items.kind # "list"

\* C6: for every malformed or absent initial document, constructing and
\* rendering the widget raises no error and yields a checklist with a single
\* blank unchecked item.
C6_MalformedDataDefaults ==
  (ev.kind = "render" /\ Malformed(optData))
  => (~ev.threw /\ pc = "mounted" /\ OneBlankItem(items))

\* the positions of the items save() is to keep, in order
RECURSIVE KeptIndexes(_, _)
KeptIndexes(its, i) ==
  IF i > Len(its) THEN <<>>
  ELSE (IF NormalizedText(its[i].nodes) # <<>> THEN <<i>> ELSE <<>>)
       \o KeptIndexes(its, i + 1)

\* C7: save() returns the live items in their current order, each with its
\* normalized text and its checked state, exactly the items with empty
\* normalized text dropped; no saved item has empty text.
C7_SaveReportsLiveItems ==
  ev.kind = "save"
  => LET kept == KeptIndexes(items, 1)
     IN  /\ Len(ev.ret) = Len(kept)
         /\ \A j \in 1..Len(kept) :
              /\ ev.ret[j].text = NormalizedText(items[kept[j]].nodes)
              /\ ev.ret[j].checked = items[kept[j]].checked
              /\ ev.ret[j].text # <<>>

\* a save after edits: the tree no longer has the items of the stored
\* document, an empty item was dropped and another one reported
C7_Witness ==
  /\ ev.kind = "save"
  /\ data.items.kind = "list"
  /\ Len(items) > Len(data.items.list)
  /\ Len(ev.ret) >= 1
  /\ Len(ev.ret) < Len(items)

\* what save() returns is the document's list: same length, order, texts and
\* checked values (an absent checked field counting as false)
SameDocument(saved, list) ==
  /\ Len(saved) = Len(list)
  /\ \A i \in 1..Len(list) :
       /\ saved[i].text = list[i].text
       /\ saved[i].checked = list[i].checked

\* the text shows a character: it is not empty, nor only spaces and breaks
NotBlank(text) == \E i \in 1..Len(text) : text[i] \notin {" ", "<br>"}

\* the text is HTML as a serialiser writes it: no bare ampersand
WellFormed(text) == \A i \in 1..Len(text) : text[i] # "&"

\* C8 as stated: for a document whose item texts are non-empty and not purely
\* whitespace (here: well-formed HTML showing a character), render followed at
\* once by save returns the document.
C8_RoundTrip ==
  [][(/\ ev.kind = "render"
      /\ ev'.kind = "save"
      /\ optData.present
      /\ optData.items.kind = "list"
      /\ \A i \in 1..Len(optData.items.list) :
           NotBlank(optData.items.list[i].text) /\ WellFormed(optData.items.list[i].text))
     => SameDocument(ev'.ret, optData.items.list)]_vars

\* a text as save() writes it: not empty, no <br>, no bare ampersand, no space
\* at either end
SavedForm(text) ==
  /\ text # <<>>
  /\ \A i \in 1..Len(text) : text[i] \notin {"<br>", "&"}
  /\ text[1] # " "
  /\ text[Len(text)] # " "

\* C8 amended: for a document whose item texts are non-empty, contain no <br>
\* and no character the serialiser rewrites, and neither start nor end with
\* whitespace, render followed at once by save
\* returns the document.
C8_RoundTripSavedForm ==
  [][(/\ ev.kind = "render"
      /\ ev'.kind = "save"
      /\ optData.present
      /\ optData.items.kind = "list"
      /\ \A i \in 1..Len(optData.items.list) : SavedForm(optData.items.list[i].text))
     => SameDocument(ev'.ret, optData.items.list)]_vars

\* a save that returned a two-item document in saved form, one item checked
C8_Witness ==
  /\ ev.kind = "save"
  /\ optData.present
  /\ optData.items.kind = "list"
  /\ Len(optData.items.list) = 2
  /\ \A i \in 1..2 : SavedForm(optData.items.list[i].text)
  /\ optData.items.list[1].checked
  /\ SameDocument(ev.ret, optData.items.list)

\* C9: Backspace in an item that has a predecessor, with the caret at offset
\* 0, prevents the default, appends the content after the caret to the end of
\* the previous item's text, puts the caret at the boundary between the
\* previous item's original content and the appended content, and removes the
\* current item.
C9_BackspaceMerges ==
  [][(/\ ev'.kind = "backspace"
      /\ listeners
      /\ ev'.sel.item >= 2
      /\ ev'.sel.foff = 0)
     => LET cur == ev'.sel.item
            p == RangeEnd(ev'.sel)
        IN  /\ ev'.prevented
            /\ Len(items') = Len(items) - 1
            /\ \A j \in 1..Len(items') :
                 /\ j < cur - 1 => items'[j] = items[j]
                 /\ j >= cur => items'[j] = items[j + 1]
            /\ items'[cur - 1].checked = items[cur - 1].checked
            /\ FieldHTML(items'[cur - 1].nodes)
                 = FieldHTML(items[cur - 1].nodes) \o HTMLAfter(items[cur].nodes, p)
            /\ ev'.caret.item = cur - 1
            /\ Anchor(ev'.caret) = Focus(ev'.caret)
            /\ HTMLBefore(items'[cur - 1].nodes, Focus(ev'.caret))
                 = FieldHTML(items[cur - 1].nodes)]_vars

\* a merge has joined two texts: the caret stands inside the merged text, with
\* content on both sides
C9_Witness ==
  /\ ev.kind = "backspace"
  /\ ev.prevented
  /\ Len(items) = 1
  /\ HTMLBefore(items[1].nodes, Focus(ev.caret)) # <<>>
  /\ HTMLAfter(items[1].nodes, Focus(ev.caret)) # <<>>

\* C10: Backspace in the first item, or with the caret not at offset 0,
\* changes nothing: the items, their texts, checked states and order and the
\* selection stay, and the default is not prevented.
C10_BackspaceNoOp ==
  [][(/\ ev'.kind = "backspace"
      /\ ev'.sel.item # 0
      /\ (ev'.sel.item = 1 \/ ev'.sel.foff # 0))
     => /\ items' = items
        /\ ~ev'.prevented
        /\ ev'.caret = ev'.sel]_vars

\* Backspace was pressed in the second item with the caret inside its text,
\* and nothing was merged
C10_Witness ==
  /\ ev.kind = "backspace"
  /\ listeners
  /\ ev.sel.item = 2
  /\ ev.sel.foff # 0
  /\ ~ev.prevented
  /\ Len(items) >= 2

\* the checked flags of the items, top to bottom
CheckedFlags(its) == [i \in 1..Len(its) |-> its[i].checked]

\* C11: a click whose target is not inside an item's checkbox control (the
\* wrapper, an item node, a text field) changes no item's checked state.
C11_OtherClicksKeepChecked ==
  [][(/\ ev'.kind = "click"
      /\ ~\E i \in 1..Len(items) : CheckboxContains(i, El(ev'.part, ev'.item)))
     => CheckedFlags(items') = CheckedFlags(items)]_vars

\* an editable widget was clicked on the text of a checked item
C11_Witness ==
  /\ ev.kind = "click"
  /\ listeners
  /\ ev.part = "text"
  /\ items[ev.item].checked

\* a sequence without its i-th element, and with x put after its i-th
WithoutAt(seq, i) == SubSeq(seq, 1, i - 1) \o SubSeq(seq, i + 1, Len(seq))
WithAfter(seq, i, x) == SubSeq(seq, 1, i) \o <<x>> \o SubSeq(seq, i + 1, Len(seq))

\* C12: Enter (split or exit), Backspace and save never change the checked
\* state of an item that survives: after a split the flags are the old ones
\* with an unchecked flag for the new item put after the current item's, after
\* an exit or a merge they are the old ones without the removed item's, and
\* otherwise they are the old ones.
C12_CheckedOnlyByClick ==
  [][(ev'.kind \in {"enter", "backspace", "save"})
     => LET cur == ev'.sel.item
            old == CheckedFlags(items)
            new == CheckedFlags(items')
        IN  CASE Len(items') = Len(items) + 1 -> new = WithAfter(old, cur, FALSE)
              [] Len(items') = Len(items) - 1 -> new = WithoutAt(old, cur)
              [] OTHER -> new = old]_vars

\* Enter has split a checked item: it is still checked and the new item after
\* it, which holds the caret, is not
C12_Witness ==
  /\ ev.kind = "enter"
  /\ ev.sel.item # 0
  /\ Len(items) > ev.sel.item
  /\ ev.caret.item = ev.sel.item + 1
  /\ items[ev.sel.item].checked
  /\ ~items[ev.sel.item + 1].checked

\* C13: validate(doc) is true exactly when doc.items has an element; so the
\* document save() returns is rejected exactly when no mounted item has a
\* non-empty normalized text (also when no item is mounted).
C13_ValidateWantsItems ==
  [][(ev'.kind = "validate")
     => /\ ev'.valid = (Len(ev'.ret) >= 1)
        /\ ev'.ret = SaveResult(items)
        /\ ~ev'.valid = (\A i \in 1..Len(items) : NormalizedText(items[i].nodes) = <<>>)]_vars

\* a saved document was rejected although an item is mounted: its text is
\* empty once normalized
C13_Witness ==
  /\ ev.kind = "validate"
  /\ ~ev.valid
  /\ Len(items) >= 1
  /\ \E i \in 1..Len(items) : items[i].nodes # <<>>

\* C14: a widget rendered read-only has no keydown or click listener: no
\* Enter, Backspace or click changes its items (count, texts, checked states)
\* or what save() returns, prevents a default or makes a host call.
C14_ReadOnlyIsStatic ==
  [][(readOnly /\ pc' = "mounted")
     => /\ ~listeners'
        /\ (ev'.kind \in {"enter", "backspace", "key", "click"})
             => /\ items' = items
                /\ SaveResult(items') = SaveResult(items)
                /\ ev'.calls = <<>>
                /\ ~ev'.prevented]_vars

\* a read-only widget showing a checked item with text was clicked on a
\* checkbox
C14_Witness ==
  /\ readOnly
  /\ pc = "mounted"
  /\ ev.kind = "click"
  /\ ev.part = "checkbox"
  /\ items[ev.item].checked
  /\ SaveResult(items) # <<>>

\* C15: a keydown whose key code is neither 13 (Enter) nor 8 (Backspace)
\* changes no item (count, texts, checked flags), leaves the selection,
\* prevents no default and makes no host call.
C15_OtherKeysPassThrough ==
  [][(ev'.kind \in {"enter", "backspace", "key"} /\ ev'.keyCode \notin {13, 8})
     => /\ items' = items
        /\ ev'.caret = ev'.sel
        /\ ~ev'.prevented
        /\ ev'.calls = <<>>]_vars

\* another key was pressed in an editable widget where Enter would have left
\* the checklist: in its last item, which is empty
C15_Witness ==
  /\ ev.kind = "key"
  /\ ev.keyCode \in OtherKeyCodes
  /\ listeners
  /\ ev.sel.item = Len(items)
  /\ Len(items) >= 2
  /\ items[Len(items)].nodes = <<>>

\* C16: a toggle of an item's checked state sets the no-hover class on its
\* checkbox control; the class is gone after the next mouseleave of that
\* control, however many toggles preceded it; and the class appears on a
\* control only by a toggle of its item (it is absent after render, so it is
\* never present on a control not toggled since its last mouseleave).
C16_NoHoverUntilMouseLeave ==
  [][/\ (ev'.kind = "render") => \A i \in 1..Len(items') : ~items'[i].noHover
     /\ (ev'.kind # "render" /\ Len(items') = Len(items))
          => \A i \in 1..Len(items) :
               /\ (items'[i].checked # items[i].checked) => items'[i].noHover
               /\ (ev'.kind = "mouseleave" /\ ev'.item = i) => ~items'[i].noHover
               /\ (items'[i].noHover /\ ~items[i].noHover)
                    => items'[i].checked # items[i].checked]_vars

\* the mouse has left the checkbox of an item that was toggled since render
\* (its checked state is not the rendered one): the class is gone, while
\* another item toggled since still has it
C16_Witness ==
  /\ ev.kind = "mouseleave"
  /\ data.items.kind = "list"
  /\ Len(items) = Len(data.items.list)
  /\ items[ev.item].checked # data.items.list[ev.item].checked
  /\ ~items[ev.item].noHover
  /\ \E j \in 1..Len(items) : j # ev.item /\ items[j].noHover

\* the texts of the items from the i-th on, each followed by '. ' but the last
RECURSIVE TextsFrom(_, _)
TextsFrom(list, i) ==
  IF i > Len(list) THEN <<>>
  ELSE list[i].text \o (IF i < Len(list) THEN <<".", " ">> ELSE <<>>) \o TextsFrom(list, i + 1)

\* C17: export(doc) is the texts of doc's items, in order, with '. ' between
\* two of them: the text alone for one item, the empty string for none,
\* whatever the checked flags.
C17_ExportJoinsTexts ==
  (ev.kind = "export" /\ ev.arg.kind = "list")
    => /\ ~ev.threw
       /\ ev.ret = TextsFrom(ev.arg.list, 1)
       /\ Len(ev.arg.list) = 0 => ev.ret = <<>>
       /\ Len(ev.arg.list) = 1 => ev.ret = ev.arg.list[1].text

\* a document of two items, the first unchecked and the second checked, was
\* exported: the separator stands between their texts
C17_Witness ==
  /\ ev.kind = "export"
  /\ ev.arg.kind = "list"
  /\ Len(ev.arg.list) = 2
  /\ ~ev.arg.list[1].checked
  /\ ev.arg.list[2].checked
  /\ ev.arg.list[1].text = <<"a">>
  /\ ev.ret = <<"a", ".", " ">>

\* C18: import(str) is the document of one item with text str and checked
\* false, and export(import(str)) is str.
C18_ImportOneItem ==
  /\ (ev.kind = "import")
       => ev.ret = <<[text |-> ev.arg, checked |-> FALSE, hasChecked |-> TRUE]>>
  /\ (ev.kind = "importExport") => ev.ret = ev.arg

\* a string with the separator in it and a space at its end came back
C18_Witness ==
  /\ ev.kind = "importExport"
  /\ ev.arg = <<"a", ".", " ">>
  /\ ev.ret = ev.arg

\* the place in save()'s result of the i-th item node, when it is kept
SavedIndex(its, i) == Len(KeptIndexes(its, 1)) - Len(KeptIndexes(its, i)) + 1

\* C19 as stated: an item of the initial document without a checked field is
\* rendered unchecked, and the save() that follows reports it with checked =
\* false.
C19_NoCheckedFieldIsUnchecked ==
  [][(/\ ev.kind = "render"
      /\ ev'.kind = "save"
      /\ optData.present
      /\ optData.items.kind = "list")
     => \A i \in 1..Len(optData.items.list) :
          ~optData.items.list[i].hasChecked
            => /\ ~items[i].checked
               /\ NormalizedText(items[i].nodes) # <<>>
               /\ ~ev'.ret[SavedIndex(items, i)].checked]_vars

\* C19 amended: an item of the initial document without a checked field is
\* rendered unchecked, and the save() that follows reports it with checked =
\* false if it reports it: if its normalized text is not empty.
C19_NoCheckedFieldIsUncheckedWhenSaved ==
  [][(/\ ev.kind = "render"
      /\ ev'.kind = "save"
      /\ optData.present
      /\ optData.items.kind = "list")
     => \A i \in 1..Len(optData.items.list) :
          ~optData.items.list[i].hasChecked
            => /\ ~items[i].checked
               /\ NormalizedText(items[i].nodes) # <<>>
                    => /\ SavedIndex(items, i) \in 1..Len(ev'.ret)
                       /\ ev'.ret[SavedIndex(items, i)].text = NormalizedText(items[i].nodes)
                       /\ ~ev'.ret[SavedIndex(items, i)].checked]_vars

\* a document of a checked item and an item without a checked field, both
\* with text, was rendered and saved: the second is reported unchecked
C19_Witness ==
  /\ ev.kind = "save"
  /\ optData.present
  /\ optData.items.kind = "list"
  /\ Len(optData.items.list) = 2
  /\ Len(items) = 2
  /\ optData.items.list[1].checked
  /\ ~optData.items.list[2].hasChecked
  /\ Len(ev.ret) = 2
  /\ ev.ret[1].checked
  /\ ~ev.ret[2].checked

\* the one place of a call of op in the calls of an event (0: not exactly one)
PlaceOf(calls, op) ==
  IF Cardinality(CallsOf(calls, {op})) = 1
  THEN CHOOSE i \in 1..Len(calls) : calls[i].op = op
  ELSE 0

\* C20: on Enter in the empty last item the host's current block index is
\* read first, then the item is removed, then the host inserts the new block,
\* then the caret is set to the block of the index read + 1.
C20_ExitOrder ==
  [][(ev'.kind = "enter" /\ listeners /\ IsExitGesture(items, ev'.sel))
     => LET calls == ev'.calls
            read == PlaceOf(calls, "getCurrentBlockIndex")
            removed == PlaceOf(calls, "item.remove")
            inserted == PlaceOf(calls, "insert")
            caretSet == PlaceOf(calls, "setToBlock")
        IN  /\ read = 1
            /\ read < removed
            /\ removed < inserted
            /\ inserted < caretSet
            /\ calls[caretSet].arg = calls[read].arg + 1
            /\ Len(items') = Len(items) - 1]_vars

\* an Enter-exit in the block of index 1 has emptied the checklist and sent
\* the caret to block 2
C20_Witness ==
  /\ ev.kind = "enter"
  /\ Len(ev.calls) = 4
  /\ ev.calls[1] = HostCall("getCurrentBlockIndex", 1)
  /\ ev.calls[4] = HostCall("setToBlock", 2)
  /\ Len(items) = 0

\* C21: Enter prevents the event's default in every case (exit, split, an item
\* that is not the last, no focused item); Backspace prevents it exactly when
\* it merges: in an item with a predecessor, with the focus offset 0, and then
\* the current item is gone.
C21_EnterAlwaysPrevents ==
  [][listeners
     => /\ (ev'.kind = "enter") => ev'.prevented
        /\ (ev'.kind = "backspace")
             => /\ ev'.prevented = (ev'.sel.item >= 2 /\ ev'.sel.foff = 0)
                /\ ev'.prevented = (Len(items') = Len(items) - 1)]_vars

\* Enter was pressed in an item that is not the last: nothing was edited, and
\* the default was prevented
C21_Witness ==
  /\ ev.kind = "enter"
  /\ listeners
  /\ ev.sel.item # 0
  /\ ev.sel.item < Len(items)
  /\ ev.caret = ev.sel
  /\ ev.prevented

\* the number of children of an item node that are of the given part
Owned(item, part) ==
  Cardinality({k \in 1..Len(item.children) : item.children[k] = part})

\* every item node owns exactly one checkbox control and exactly one text
\* field, whose children are text nodes and line breaks only
OneCheckboxOneText(its) ==
  \A i \in 1..Len(its) :
    /\ Owned(its[i], "checkboxContainer") = 1
    /\ Owned(its[i], "text") = 1
    /\ Len(its[i].children) = 2
    /\ \A k \in 1..Len(its[i].nodes) :
         its[i].nodes[k].br \/ its[i].nodes[k].s \in Seq(Tokens)

\* C22 as stated: in every reachable state every item node owns exactly one
\* checkbox control and exactly one editable text field.
C22_OneCheckboxOneEditableText ==
  /\ OneCheckboxOneText(items)
  /\ \A i \in 1..Len(items) : items[i].contentEditable

\* C22 amended: in every reachable state every item node owns exactly one
\* checkbox control and exactly one text field, which is editable exactly when
\* the widget is not read-only.
C22_OneCheckboxOneText ==
  /\ OneCheckboxOneText(items)
  /\ \A i \in 1..Len(items) : items[i].contentEditable = ~readOnly

\* a merge has left two items, the merged one with text
C22_Witness ==
  /\ ev.kind = "backspace"
  /\ ev.prevented
  /\ Len(items) = 2
  /\ \E i \in 1..2 : items[i].nodes # <<>>

\* the HTML of all text fields, top to bottom, as one string
RECURSIVE AllHTML(_)
AllHTML(its) ==
  IF its = <<>> THEN <<>> ELSE FieldHTML(Head(its).nodes) \o AllHTML(Tail(its))

\* C23: the concatenation of all items' text content, top to bottom, is the
\* same before and after every Enter split and every Backspace merge,
\* wherever the caret or the selection is.
C23_ContentConserved ==
  [][(\/ ev'.kind = "enter" /\ Len(items') = Len(items) + 1
      \/ ev'.kind = "backspace" /\ ev'.prevented)
     => AllHTML(items') = AllHTML(items)]_vars

\* the part of C23 that holds: an Enter split conserves the content
C23_SplitConservesContent ==
  [][(ev'.kind = "enter" /\ Len(items') = Len(items) + 1)
     => AllHTML(items') = AllHTML(items)]_vars

\* C24: render() on an instance rendered before builds a new tree: the wrapper
\* is another element than the previous one, every item node is a child of
\* the new wrapper and no node of the previous tree is among them, and the
\* items are exactly those of the stored document, in order.  Enter, Backspace
\* and click never modify the stored document.
C24_RerenderBuildsNewTree ==
  [][/\ (ev'.kind = "render" /\ pc = "mounted")
          => /\ ~ev'.threw
             /\ wrapper' # wrapper
             /\ \A i \in 1..Len(items') :
                  /\ items'[i].parent = wrapper'
                  /\ \A j \in 1..Len(items) : items[j].parent # items'[i].parent
             /\ RenderedAs(items', data.items.list)
             /\ data' = data
     /\ (ev'.kind \in {"enter", "backspace", "click"}) => data' = data]_vars

\* a second render has rebuilt the tree of a document of two items
C24_Witness ==
  /\ ev.kind = "render"
  /\ wrapper = 2
  /\ Len(items) = 2
  /\ RenderedAs(items, data.items.list)

\* C25: with two checklists on a page, an event handled by one never changes
\* the other's items, text or checked state.
C25_InstancesIsolated ==
  [][other' = other]_vars

\* C30: an Enter or a Backspace handled while no item of this widget has the
\* focus raises no error, changes no item of any checklist and makes no host
\* call.
C30_NoFocusedItemNoEffect ==
  [][(ev'.kind \in {"enter", "backspace"} /\ ev'.sel.item = 0)
     => /\ ~ev'.threw
        /\ items' = items
        /\ other' = other
        /\ ev'.calls = <<>>]_vars

\* C26: the number of items changes by exact steps.  An Enter that is an exit
\* (focus in the last item, normalized text empty) takes exactly one item
\* away; any other Enter either changes no item or, splitting, adds exactly
\* one.  A Backspace that merges (it prevents the default) takes exactly one
\* away, any other Backspace none.  Clicks, mouseleaves, other keys, save and
\* validate leave the number as it is.
C26_CountSteps ==
  [][LET d == Len(items') - Len(items)
     IN  CASE ev'.kind = "enter" /\ listeners /\ IsExitGesture(items, ev'.sel) -> d = -1
           [] ev'.kind = "enter" /\ listeners /\ ~IsExitGesture(items, ev'.sel) ->
                IF items' = items THEN d = 0 ELSE d = 1
           [] ev'.kind = "backspace" /\ ev'.prevented -> d = -1
           [] ev'.kind \in {"enter", "backspace", "click", "mouseleave", "key",
                            "save", "validate"} -> d = 0
           [] OTHER -> TRUE]_vars

\* an Enter has split the last of two items: the caret stands in a third one
C26_Witness ==
  /\ ev.kind = "enter"
  /\ ev.sel.item = 2
  /\ ev.caret.item = 3
  /\ Len(items) = 3

\* C27: no operation reorders the items.  After an Enter, a Backspace or a
\* click the items are, position by position, those from before: with one
\* more item, the new one stands immediately after the item that had the
\* focus and holds the content cut from it; with one item less, the missing
\* one is the item that had the focus, the one before it keeps its flag and
\* its text as the start of its new text, and all others are untouched; with
\* the same number, every item has its text where it was.
C27_OrderPreserved ==
  [][(ev'.kind \in {"enter", "backspace", "click"})
     => LET cur == ev'.sel.item
            d == Len(items') - Len(items)
        IN  CASE d = 1 ->
                   /\ cur # 0
                   /\ SameItemsExcept(items, items', cur, 1)
                   /\ items'[cur].checked = items[cur].checked
                   /\ FieldHTML(items'[cur].nodes) \o FieldHTML(items'[cur + 1].nodes)
                        = FieldHTML(items[cur].nodes)
                   /\ FieldHTML(items'[cur + 1].nodes)
                        = HTMLAfter(items[cur].nodes, RangeEnd(ev'.sel))
              [] d = -1 ->
                   /\ cur # 0
                   /\ \A j \in 1..Len(items') :
                        /\ j < cur - 1 => items'[j] = items[j]
                        /\ j >= cur => items'[j] = items[j + 1]
                   /\ cur >= 2 =>
                        /\ items'[cur - 1].checked = items[cur - 1].checked
                        /\ SubSeq(FieldHTML(items'[cur - 1].nodes), 1,
                                  Len(FieldHTML(items[cur - 1].nodes)))
                             = FieldHTML(items[cur - 1].nodes)
              [] d = 0 ->
                   \A j \in 1..Len(items) : items'[j].nodes = items[j].nodes
              [] OTHER -> FALSE]_vars

\* an Enter has split an item with different content on the two sides of the
\* caret: the new item stands after the one it was cut from
C27_Witness ==
  /\ ev.kind = "enter"
  /\ ev.sel.item = 1
  /\ ev.caret.item = 2
  /\ Len(items) = 2
  /\ FieldHTML(items[1].nodes) # <<>>
  /\ FieldHTML(items[2].nodes) # <<>>
  /\ FieldHTML(items[1].nodes) # FieldHTML(items[2].nodes)

\* C28: save() is a pure read.  It changes no item (text, checked state,
\* number), not the selection and not the stored document, and a save() that
\* directly follows another returns the same document.
C28_SaveIsPureRead ==
  [][(ev'.kind = "save")
     => /\ items' = items
        /\ data' = data
        /\ ev'.caret = ev'.sel
        /\ ev.kind = "save" => ev'.ret = ev.ret]_vars

\* a save has returned a document that differs from the live items: an empty
\* item was skipped and a text was normalized
C28_Witness ==
  /\ ev.kind = "save"
  /\ Len(ev.ret) < Len(items)
  /\ \E i \in 1..Len(items) :
       /\ NormalizedText(items[i].nodes) # <<>>
       /\ FieldHTML(items[i].nodes) # NormalizedText(items[i].nodes)

\* C29: a checkbox toggle affects only the item clicked.  A click, and a call
\* of toggleCheckbox, leaves the number of items, every item's text and the
\* checked state of every item other than the one the event's target is in as
\* they were (so the order too).
C29_ToggleOnlyClickedItem ==
  [][(ev'.kind \in {"click", "toggleCheckbox"})
     => /\ Len(items') = Len(items)
        /\ \A j \in 1..Len(items) :
             /\ items'[j].nodes = items[j].nodes
             /\ j # ev'.item => items'[j] = items[j]]_vars

\* the checkbox of one of two items was toggled: that item's state is no
\* longer the stored one, the other item's is
C29_Witness ==
  /\ ev.kind = "toggleCheckbox"
  /\ Len(items) = 2
  /\ \E i \in 1..2 :
       /\ ev.item = i
       /\ items[i].checked # data.items.list[i].checked
       /\ items[3 - i].checked = data.items.list[3 - i].checked

====
